---------------------------- MODULE Spec2Model ----------------------------
(* A model of markdown2html.py: main, convert_markdown_to_html,            *)
(* convert_heading and convert_bold_emphasis.                              *)
(*                                                                         *)
(* A Python str is a sequence of one-character strings.  A literal the     *)
(* code emits as a whole ("<ul>", "<b>", "<br/>") is kept as one element   *)
(* of the sequence: none of these literals holds a character that a later  *)
(* test or substitution of the program looks for.                          *)
EXTENDS Integers, Sequences, FiniteSets, TLC

VARIABLES
    argc,            \* len(sys.argv)
    input_exists,    \* os.path.exists(markdown_file)
    pc,              \* the position of the run
    lines,           \* md_file.readlines()
    i,               \* the cursor of the outer loop (0-based, as in the code)
    html_lines,      \* the fragments emitted so far
    paragraph_lines, \* the lines collected by the last paragraph step
    fallback,        \* history: the `else: i += 1` of line 126 was executed
    kinds,           \* history: for each fragment, the rule that emitted it
    origin,          \* history: for each fragment, its source line (1-based) or 0
    out_opened,      \* the output path was opened for writing (created / truncated)
    out_written,     \* what was written to the output since it was opened
    w,               \* number of fragments written so far
    stderr,          \* messages printed to sys.stderr
    exit_code,       \* -1 while running, else the argument of sys.exit
    text,            \* the local `text` of convert_bold_emphasis
    hist             \* history: the earlier values of `text`, oldest first

vars == <<argc, input_exists, pc, lines, i, html_lines, paragraph_lines,
          fallback, kinds, origin, out_opened, out_written, w, stderr,
          exit_code, text, hist>>

(***************************************************************************)
(* Bounds of the model.                                                    *)
(***************************************************************************)
MaxLines == 3

ToolMaxLines == 2

MaxArgc == 4

MaxPieces == 4

(***************************************************************************)
(* str helpers.                                                            *)
(***************************************************************************)
NL == "\n"

\* The characters str.strip() removes, among those of the model's inputs.
Whitespace == {" ", "\t", NL}

\* s.startswith(p)
StartsWith(s, p) == Len(s) >= Len(p) /\ SubSeq(s, 1, Len(p)) = p

\* s[n:]
Drop(s, n) == SubSeq(s, n + 1, Len(s))

RECURSIVE rstrip_nl(_)
\* s.rstrip('\n')
rstrip_nl(s) ==
    IF s # <<>> /\ s[Len(s)] = NL THEN rstrip_nl(SubSeq(s, 1, Len(s) - 1)) ELSE s

RECURSIVE rstrip(_)
rstrip(s) ==
    IF s # <<>> /\ s[Len(s)] \in Whitespace THEN rstrip(SubSeq(s, 1, Len(s) - 1)) ELSE s

RECURSIVE lstrip(_)
lstrip(s) ==
    IF s # <<>> /\ s[1] \in Whitespace THEN lstrip(Drop(s, 1)) ELSE s

\* s.strip()
strip(s) == rstrip(lstrip(s))

RECURSIVE Flatten(_)
\* The concatenation of a sequence of strings.
Flatten(ss) == IF ss = <<>> THEN <<>> ELSE ss[1] \o Flatten(Drop(ss, 1))

(***************************************************************************)
(* re.sub(r'OO(.*?)CC', repl, text) for a two-character opener OO and      *)
(* closer CC: the matches are found left to right, each match starts at    *)
(* the leftmost opener that has a closer after it and ends at the first    *)
(* closer after the opener (non-greedy); the scan resumes after the match. *)
(* `.` does not match a newline: the texts the program transforms hold     *)
(* none (rstrip('\n') of a line of readlines()).                           *)
(***************************************************************************)
\* The least element of a non-empty set of positions.
Least(ps) == CHOOSE q \in ps : \A r \in ps : q <= r

\* The least q >= p with s[q], s[q+1] the closer, or 0.
FindClose(s, close, p) ==
    LET found == { q \in p..(Len(s) - 1) : s[q] = close[1] /\ s[q + 1] = close[2] }
    IN IF found = {} THEN 0 ELSE Least(found)

RECURSIVE Scan(_, _, _, _)
\* The matches from position p on: [start, stop] are the first and last
\* position of the whole match.  The next match starts at the least position
\* that holds the opener and has a closer after it.
Scan(s, open, close, p) ==
    LET starts == { a \in p..(Len(s) - 3) :
                      /\ s[a] = open[1] /\ s[a + 1] = open[2]
                      /\ FindClose(s, close, a + 2) # 0 }
    IN IF starts = {} THEN <<>>
       ELSE LET a == Least(starts)
                q == FindClose(s, close, a + 2)
            IN <<[start |-> a, stop |-> q + 1]>> \o Scan(s, open, close, q + 2)

\* match.group(1)
Group1(s, m) == SubSeq(s, m.start + 2, m.stop - 2)

\* match.group(0)
Group0(s, m) == SubSeq(s, m.start, m.stop)

\* The text with match k replaced by reps[k], the rest copied.
re_sub(s, ms, reps) ==
    LET n == Len(ms)
        Gap(k) == \* the unmatched text before match k (after the last one for k = n + 1)
            SubSeq(s, IF k = 1 THEN 1 ELSE ms[k - 1].stop + 1,
                      IF k = n + 1 THEN Len(s) ELSE ms[k].start - 1)
    IN Flatten([k \in 1..(2 * n + 1) |->
                   IF k % 2 = 1 THEN Gap((k + 1) \div 2) ELSE reps[k \div 2]])

(***************************************************************************)
(* convert_bold_emphasis                                                   *)
(***************************************************************************)
\* hashlib.md5(content.encode()).hexdigest(), for the contents the model's
\* inputs put between [[ and ]].
hexdigest(content) ==
    CASE content = <<"x">> ->
           <<"9", "d", "d", "4", "e", "4", "6", "1", "2", "6", "8", "c", "8", "0", "3", "4",
             "f", "5", "c", "8", "5", "6", "4", "e", "1", "5", "5", "c", "6", "7", "a", "6">>
      [] content = <<>> ->
           <<"d", "4", "1", "d", "8", "c", "d", "9", "8", "f", "0", "0", "b", "2", "0", "4",
             "e", "9", "8", "0", "0", "9", "9", "8", "e", "c", "f", "8", "4", "2", "7", "e">>
      [] content = <<"c">> ->
           <<"4", "a", "8", "a", "0", "8", "f", "0", "9", "d", "3", "7", "b", "7", "3", "7",
             "9", "5", "6", "4", "9", "0", "3", "8", "4", "0", "8", "b", "5", "f", "3", "3">>

md5_replace(content) == hexdigest(content)

\* re.sub(r'[cC]', '', content)
remove_c(content) == SelectSeq(content, LAMBDA ch : ch \notin {"c", "C"})

\* Mutant: the whole match, asterisks included, is put between the tags.
bold_repl_group0(group0, group1) == <<"<b>">> \o group0 \o <<"</b>">>

\* r'<b>\1</b>'
bold_repl(group0, group1) == <<"<b>">> \o group1 \o <<"</b>">>

\* r'<em>\1</em>'
em_repl(group0, group1) == <<"<em>">> \o group1 \o <<"</em>">>

md5_matches(s) == Scan(s, <<"[", "[">>, <<"]", "]">>, 1)

remove_matches(s) == Scan(s, <<"(", "(">>, <<")", ")">>, 1)

bold_matches(s) == Scan(s, <<"*", "*">>, <<"*", "*">>, 1)

em_matches(s) == Scan(s, <<"_", "_">>, <<"_", "_">>, 1)

\* line 179
md5_pass(s) ==
    LET ms == md5_matches(s)
    IN re_sub(s, ms, [k \in DOMAIN ms |-> md5_replace(Group1(s, ms[k]))])

\* line 186
remove_pass(s) ==
    LET ms == remove_matches(s)
    IN re_sub(s, ms, [k \in DOMAIN ms |-> remove_c(Group1(s, ms[k]))])

\* line 189
bold_pass(s) ==
    LET ms == bold_matches(s)
    IN re_sub(s, ms, [k \in DOMAIN ms |-> bold_repl(Group0(s, ms[k]), Group1(s, ms[k]))])

\* line 192
em_pass(s) ==
    LET ms == em_matches(s)
    IN re_sub(s, ms, [k \in DOMAIN ms |-> em_repl(Group0(s, ms[k]), Group1(s, ms[k]))])

\* Mutant: the bold substitution runs before the letter removal.
convert_bold_emphasis_bold_first(s) == em_pass(remove_pass(bold_pass(md5_pass(s))))

\* lines 179-194: the four substitutions, each on the result of the one before
convert_bold_emphasis(s) == em_pass(bold_pass(remove_pass(md5_pass(s))))

(***************************************************************************)
(* convert_heading                                                         *)
(***************************************************************************)
RECURSIVE heading_level(_)
\* The loop of lines 148-153: the number of leading '#'.
heading_level(line) ==
    IF line # <<>> /\ line[1] = "#" THEN 1 + heading_level(Drop(line, 1)) ELSE 0

convert_heading(line) ==
    LET level == heading_level(line)
        heading_text == convert_bold_emphasis(strip(Drop(line, level)))
    IN <<"<h" \o ToString(level) \o ">">> \o heading_text
           \o <<"</h" \o ToString(level) \o ">">>

(***************************************************************************)
(* The input files of the model: readlines() gives every line with its     *)
(* newline, except possibly the last one, which is then not empty.         *)
(***************************************************************************)
LineBodies ==
    { <<>>,                                   \* empty
      <<" ">>,                                \* whitespace only
      <<"#">>,                                \* heading without text
      <<"#", "#", " ", "x">>,                 \* level-2 heading
      <<"-", " ", "x">>,                      \* "- " item
      <<"-", " ">>,                           \* "- " item without text
      <<"-", "x">>,                           \* dash without the space
      <<"*", " ", "x">>,                      \* "* " item
      <<"*", " ", "*", "*", "x", "*", "*">>,  \* "* " item with bold text
      <<"*", "x">>,                           \* star without the space
      <<"x">>,                                \* plain text
      <<"x", " ">>,                           \* plain text, trailing blank
      <<" ", "-", " ", "x">>,                 \* indented "- "
      <<"[", "[", "x", "]", "]">> }           \* plain text with a hash span

\* A file is its lines without their newlines and whether its last line has one.
IsFile(bodies, final_newline) ==
    final_newline \/ (bodies # <<>> /\ bodies[Len(bodies)] # <<>>)

\* line 53: readlines()
readlines(bodies, final_newline) ==
    [k \in DOMAIN bodies |->
        IF k < Len(bodies) \/ final_newline THEN bodies[k] \o <<NL>> ELSE bodies[k]]

\* ls is what readlines() gives for a file of at most maxLines lines.
IsInput(ls, maxLines) ==
    \E m \in 0..maxLines : \E bodies \in [1..m -> LineBodies], final_newline \in BOOLEAN :
        /\ IsFile(bodies, final_newline)
        /\ ls = readlines(bodies, final_newline)

(***************************************************************************)
(* convert_markdown_to_html: the outer loop, one action per iteration.     *)
(***************************************************************************)
\* line = lines[i].rstrip('\n')
line == rstrip_nl(lines[i + 1])

AtLine == pc = "loop" /\ i < Len(lines)

RECURSIVE list_end(_, _, _)
\* The while loops of lines 77-81 and 91-95: the cursor when the loop ends.
list_end(ls, j, prefix) ==
    IF j < Len(ls) /\ StartsWith(rstrip_nl(ls[j + 1]), prefix)
    THEN list_end(ls, j + 1, prefix)
    ELSE j

\* Mutant: the item's text is not inline-transformed.
list_item_plain(raw) ==
    <<"<li>">> \o strip(Drop(rstrip_nl(raw), 2)) \o <<"</li>">>

\* lines 78-80 and 92-94
list_item(raw) ==
    <<"<li>">> \o convert_bold_emphasis(strip(Drop(rstrip_nl(raw), 2))) \o <<"</li>">>

\* Mutant: the collection tests for "-" where the branch tests for "- ".
paragraph_accepts_dash(raw) ==
    /\ strip(rstrip_nl(raw)) # <<>>
    /\ ~StartsWith(raw, <<"#">>)
    /\ ~StartsWith(raw, <<"-">>)
    /\ ~StartsWith(raw, <<"*", " ">>)

\* Mutant: the collection does not stop at a "* " line.
paragraph_accepts_star(raw) ==
    /\ strip(rstrip_nl(raw)) # <<>>
    /\ ~StartsWith(raw, <<"#">>)
    /\ ~StartsWith(raw, <<"-", " ">>)

\* The condition of the while loop of lines 104-108 but for the bound test.
paragraph_accepts(raw) ==
    /\ strip(rstrip_nl(raw)) # <<>>
    /\ ~StartsWith(raw, <<"#">>)
    /\ ~StartsWith(raw, <<"-", " ">>)
    /\ ~StartsWith(raw, <<"*", " ">>)

RECURSIVE paragraph_end(_, _)
\* The while loop of lines 104-110: the cursor when the loop ends.
paragraph_end(ls, j) ==
    IF j < Len(ls) /\ paragraph_accepts(ls[j + 1])
    THEN paragraph_end(ls, j + 1)
    ELSE j

\* Mutant: no <br/> between the lines of a paragraph.
paragraph_fragments_nobr(pl) ==
    <<(<<"<p>">>)>> \o [n \in 1..Len(pl) |-> convert_bold_emphasis(pl[n])]
    \o <<(<<"</p>">>)>>

\* lines 114-123: the fragments of a paragraph
paragraph_fragments(pl) ==
    <<(<<"<p>">>)>>
    \o [n \in 1..(2 * Len(pl) - 1) |->
           IF n % 2 = 1 THEN convert_bold_emphasis(pl[(n + 1) \div 2]) ELSE <<"<br/>">>]
    \o <<(<<"</p>">>)>>

\* The rules that emit the fragments of paragraph_fragments(pl).
paragraph_kinds(pl) ==
    <<"<p>">> \o [n \in 1..(2 * Len(pl) - 1) |-> IF n % 2 = 1 THEN "text" ELSE "<br/>"]
    \o <<"</p>">>

Emit(frags, ks, os) ==
    /\ html_lines' = html_lines \o frags
    /\ kinds' = kinds \o ks
    /\ origin' = origin \o os

LoopUnchanged ==
    UNCHANGED <<argc, input_exists, pc, lines, out_opened, out_written, w,
                stderr, exit_code, text, hist>>

\* lines 62-64
SkipBlank ==
    /\ AtLine
    /\ strip(line) = <<>>
    /\ i' = i + 1
    /\ UNCHANGED <<html_lines, kinds, origin, paragraph_lines, fallback>>
    /\ LoopUnchanged

\* lines 67-70
Heading ==
    /\ AtLine
    /\ strip(line) # <<>>
    /\ StartsWith(line, <<"#">>)
    /\ Emit(<<convert_heading(line)>>, <<"h">>, <<i + 1>>)
    /\ i' = i + 1
    /\ UNCHANGED <<paragraph_lines, fallback>>
    /\ LoopUnchanged

\* Mutant: the cursor is advanced once more after the run.
ListBlock_overrun(prefix, open, close) ==
    LET e == list_end(lines, i, prefix)
    IN /\ Emit(<<(<<open>>)>> \o [k \in 1..(e - i) |-> list_item(lines[i + k])]
                   \o <<(<<close>>)>>,
               <<open>> \o [k \in 1..(e - i) |-> "li"] \o <<close>>,
               <<0>> \o [k \in 1..(e - i) |-> i + k] \o <<0>>)
       /\ i' = e + 1

\* Mutant: the closing tag of the list is not emitted.
ListBlock_unclosed(prefix, open, close) ==
    LET e == list_end(lines, i, prefix)
    IN /\ Emit(<<(<<open>>)>> \o [k \in 1..(e - i) |-> list_item(lines[i + k])],
               <<open>> \o [k \in 1..(e - i) |-> "li"],
               <<0>> \o [k \in 1..(e - i) |-> i + k])
       /\ i' = e

\* The body of a list branch: lines 74-84 and 88-98.
ListBlock(prefix, open, close) ==
    LET e == list_end(lines, i, prefix)
    IN /\ Emit(<<(<<open>>)>> \o [k \in 1..(e - i) |-> list_item(lines[i + k])]
                   \o <<(<<close>>)>>,
               <<open>> \o [k \in 1..(e - i) |-> "li"] \o <<close>>,
               <<0>> \o [k \in 1..(e - i) |-> i + k] \o <<0>>)
       /\ i' = e

\* lines 72-84
UnorderedList ==
    /\ AtLine
    /\ strip(line) # <<>>
    /\ ~StartsWith(line, <<"#">>)
    /\ StartsWith(line, <<"-", " ">>)
    /\ ListBlock(<<"-", " ">>, "<ul>", "</ul>")
    /\ UNCHANGED <<paragraph_lines, fallback>>
    /\ LoopUnchanged

\* lines 86-98
OrderedList ==
    /\ AtLine
    /\ strip(line) # <<>>
    /\ ~StartsWith(line, <<"#">>)
    /\ ~StartsWith(line, <<"-", " ">>)
    /\ StartsWith(line, <<"*", " ">>)
    /\ ListBlock(<<"*", " ">>, "<ol>", "</ol>")
    /\ UNCHANGED <<paragraph_lines, fallback>>
    /\ LoopUnchanged

\* lines 99-126
Paragraph ==
    /\ AtLine
    /\ strip(line) # <<>>
    /\ ~StartsWith(line, <<"#">>)
    /\ ~StartsWith(line, <<"-", " ">>)
    /\ ~StartsWith(line, <<"*", " ">>)
    /\ LET e == paragraph_end(lines, i)
           pl == [k \in 1..(e - i) |-> rstrip_nl(lines[i + k])]
       IN /\ paragraph_lines' = pl
          /\ IF pl # <<>>
             THEN /\ Emit(paragraph_fragments(pl), paragraph_kinds(pl),
                          <<0>> \o [n \in 1..(2 * Len(pl) - 1) |->
                                       IF n % 2 = 1 THEN i + (n + 1) \div 2 ELSE 0]
                               \o <<0>>)
                  /\ i' = e
                  /\ UNCHANGED fallback
             ELSE /\ i' = e + 1
                  /\ fallback' = TRUE
                  /\ UNCHANGED <<html_lines, kinds, origin>>
    /\ LoopUnchanged

\* line 58, when the condition is false
LoopExit ==
    /\ pc = "loop"
    /\ i >= Len(lines)
    /\ pc' = "open_output"
    /\ UNCHANGED <<argc, input_exists, lines, i, html_lines, paragraph_lines,
                   fallback, kinds, origin, out_opened, out_written, w, stderr,
                   exit_code, text, hist>>

(***************************************************************************)
(* The block parser alone: the state after readlines() of any input.       *)
(***************************************************************************)
Init ==
    /\ argc = 3
    /\ input_exists = TRUE
    /\ pc = "loop"
    /\ IsInput(lines, MaxLines)
    /\ i = 0
    /\ html_lines = <<>>
    /\ paragraph_lines = <<>>
    /\ fallback = FALSE
    /\ kinds = <<>>
    /\ origin = <<>>
    /\ out_opened = FALSE
    /\ out_written = <<>>
    /\ w = 0
    /\ stderr = <<>>
    /\ exit_code = -1
    /\ text = <<>>
    /\ hist = <<>>

Next ==
    \/ SkipBlank
    \/ Heading
    \/ UnorderedList
    \/ OrderedList
    \/ Paragraph
    \/ LoopExit

Spec == Init /\ [][Next]_vars

(***************************************************************************)
(* main and the file handling of convert_markdown_to_html.  Whether an     *)
(* open, a read, a write or a close succeeds is the environment's choice.  *)
(***************************************************************************)
\* sys.argv[1]
markdown_file == "README.md"

UsageMessage == "Usage: ./markdown2html.py README.md README.html"

MissingMessage == "Missing " \o markdown_file

ErrorMessage == "Error processing file: "

ParseUnchanged ==
    UNCHANGED <<i, html_lines, paragraph_lines, fallback, kinds, origin, text, hist>>

\* lines 24-26
CheckArgs ==
    /\ pc = "check_args"
    /\ IF argc < 3
       THEN /\ stderr' = Append(stderr, UsageMessage)
            /\ exit_code' = 1
            /\ pc' = "exited"
       ELSE /\ pc' = "check_exists"
            /\ UNCHANGED <<stderr, exit_code>>
    /\ UNCHANGED <<argc, input_exists, lines, out_opened, out_written, w>>
    /\ ParseUnchanged

\* lines 33-35
CheckExists ==
    /\ pc = "check_exists"
    /\ IF ~input_exists
       THEN /\ stderr' = Append(stderr, MissingMessage)
            /\ exit_code' = 1
            /\ pc' = "exited"
       ELSE /\ pc' = "read"
            /\ UNCHANGED <<stderr, exit_code>>
    /\ UNCHANGED <<argc, input_exists, lines, out_opened, out_written, w>>
    /\ ParseUnchanged

\* lines 52-56
ReadInput ==
    /\ pc = "read"
    /\ \E ok \in BOOLEAN :
          IF ok
          THEN /\ IsInput(lines', ToolMaxLines)
               /\ pc' = "loop"
          ELSE /\ pc' = "except"
               /\ UNCHANGED lines
    /\ UNCHANGED <<argc, input_exists, out_opened, out_written, w, stderr, exit_code>>
    /\ ParseUnchanged

\* line 129: open(output_file, 'w') creates or truncates the file
OpenOutput ==
    /\ pc = "open_output"
    /\ \E ok \in BOOLEAN :
          IF ok
          THEN /\ out_opened' = TRUE
               /\ out_written' = <<>>
               /\ pc' = "write"
          ELSE /\ pc' = "except"
               /\ UNCHANGED <<out_opened, out_written>>
    /\ UNCHANGED <<argc, input_exists, lines, w, stderr, exit_code>>
    /\ ParseUnchanged

\* lines 130-131, one iteration
WriteFragment ==
    /\ pc = "write"
    /\ w < Len(html_lines)
    /\ \E ok \in BOOLEAN :
          IF ok
          THEN /\ out_written' = Append(out_written, html_lines[w + 1] \o <<NL>>)
               /\ w' = w + 1
               /\ UNCHANGED pc
          ELSE /\ pc' = "except"
               /\ UNCHANGED <<out_written, w>>
    /\ UNCHANGED <<argc, input_exists, lines, out_opened, stderr, exit_code>>
    /\ ParseUnchanged

\* the end of the with block of line 129: the file is closed
CloseOutput ==
    /\ pc = "write"
    /\ w = Len(html_lines)
    /\ \E ok \in BOOLEAN : pc' = IF ok THEN "return" ELSE "except"
    /\ UNCHANGED <<argc, input_exists, lines, out_opened, out_written, w, stderr,
                   exit_code>>
    /\ ParseUnchanged

\* Mutant: the handler prints the message and does not exit.
ExceptHandler_no_exit ==
    /\ pc = "except"
    /\ stderr' = Append(stderr, ErrorMessage)
    /\ pc' = "return"
    /\ UNCHANGED <<argc, input_exists, lines, out_opened, out_written, w, exit_code>>
    /\ ParseUnchanged

\* lines 133-135
ExceptHandler ==
    /\ pc = "except"
    /\ stderr' = Append(stderr, ErrorMessage)
    /\ exit_code' = 1
    /\ pc' = "exited"
    /\ UNCHANGED <<argc, input_exists, lines, out_opened, out_written, w>>
    /\ ParseUnchanged

\* line 41
ExitSuccess ==
    /\ pc = "return"
    /\ exit_code' = 0
    /\ pc' = "exited"
    /\ UNCHANGED <<argc, input_exists, lines, out_opened, out_written, w, stderr>>
    /\ ParseUnchanged

InitTool ==
    /\ argc \in 1..MaxArgc
    /\ input_exists \in BOOLEAN
    /\ pc = "check_args"
    /\ lines = <<>>
    /\ i = 0
    /\ html_lines = <<>>
    /\ paragraph_lines = <<>>
    /\ fallback = FALSE
    /\ kinds = <<>>
    /\ origin = <<>>
    /\ out_opened = FALSE
    /\ out_written = <<>>
    /\ w = 0
    /\ stderr = <<>>
    /\ exit_code = -1
    /\ text = <<>>
    /\ hist = <<>>

NextTool ==
    \/ CheckArgs
    \/ CheckExists
    \/ ReadInput
    \/ SkipBlank
    \/ Heading
    \/ UnorderedList
    \/ OrderedList
    \/ Paragraph
    \/ LoopExit
    \/ OpenOutput
    \/ WriteFragment
    \/ CloseOutput
    \/ ExceptHandler
    \/ ExitSuccess

SpecTool == InitTool /\ [][NextTool]_vars

(***************************************************************************)
(* convert_bold_emphasis alone, one action per substitution.  The texts    *)
(* are built from pieces, so that the patterns occur within the bound.     *)
(***************************************************************************)
Pieces ==
    { <<"[", "[", "x", "]", "]">>,
      <<"[", "C", "[", "x">>,
      <<"]", "]">>,
      <<"(", "(">>,
      <<")", ")">>,
      <<"*", "*">>,
      <<"_", "_">>,
      <<"*", "c", "*">>,
      <<"c">>,
      <<"x">> }

Texts(maxPieces) ==
    { Flatten(ps) : ps \in UNION { [1..m -> Pieces] : m \in 0..maxPieces } }

InlineUnchanged ==
    UNCHANGED <<argc, input_exists, lines, i, html_lines, paragraph_lines,
                fallback, kinds, origin, out_opened, out_written, w, stderr,
                exit_code>>

\* line 179
Md5Step ==
    /\ pc = "md5"
    /\ text' = md5_pass(text)
    /\ hist' = Append(hist, text)
    /\ pc' = "remove"
    /\ InlineUnchanged

\* line 186
RemoveStep ==
    /\ pc = "remove"
    /\ text' = remove_pass(text)
    /\ hist' = Append(hist, text)
    /\ pc' = "bold"
    /\ InlineUnchanged

\* line 189
BoldStep ==
    /\ pc = "bold"
    /\ text' = bold_pass(text)
    /\ hist' = Append(hist, text)
    /\ pc' = "em"
    /\ InlineUnchanged

\* line 192
EmStep ==
    /\ pc = "em"
    /\ text' = em_pass(text)
    /\ hist' = Append(hist, text)
    /\ pc' = "returned"
    /\ InlineUnchanged

InitInline ==
    /\ argc = 3
    /\ input_exists = TRUE
    /\ pc = "md5"
    /\ lines = <<>>
    /\ i = 0
    /\ html_lines = <<>>
    /\ paragraph_lines = <<>>
    /\ fallback = FALSE
    /\ kinds = <<>>
    /\ origin = <<>>
    /\ out_opened = FALSE
    /\ out_written = <<>>
    /\ w = 0
    /\ stderr = <<>>
    /\ exit_code = -1
    /\ text \in Texts(MaxPieces)
    /\ hist = <<>>

NextInline ==
    \/ Md5Step
    \/ RemoveStep
    \/ BoldStep
    \/ EmStep

SpecInline == InitInline /\ [][NextInline]_vars

(***************************************************************************)
(* The claims.  Their vocabulary is stated on the input lines themselves,  *)
(* not through the loops of the program.                                   *)
(***************************************************************************)
Range(s) == { s[k] : k \in DOMAIN s }

Count(tok, s) == Cardinality({ k \in DOMAIN s : s[k] = tok })

Indices(n) == [k \in 1..n |-> k]

\* A blank line: empty or whitespace only (its newline included).
IsBlank(raw) == \A k \in DOMAIN raw : raw[k] \in Whitespace

HasPrefix(raw, p) == \A k \in DOMAIN p : k <= Len(raw) /\ raw[k] = p[k]

IsHeading(raw) == ~IsBlank(raw) /\ HasPrefix(raw, <<"#">>)

IsUl(raw) == HasPrefix(raw, <<"-", " ">>)

IsOl(raw) == HasPrefix(raw, <<"*", " ">>)

\* A paragraph line: not blank, and none of the three prefixes.
IsPlain(raw) == ~IsBlank(raw) /\ ~HasPrefix(raw, <<"#">>) /\ ~IsUl(raw) /\ ~IsOl(raw)

\* The first lines (1-based) of the maximal runs of lines satisfying P.
RunStarts(P(_)) ==
    { k \in DOMAIN lines : P(lines[k]) /\ (k = 1 \/ ~P(lines[k - 1])) }

\* The length of the maximal run of lines satisfying P that starts at line s.
RunLen(P(_), s) ==
    CHOOSE k \in 1..(Len(lines) - s + 1) :
        /\ \A j \in s..(s + k - 1) : P(lines[j])
        /\ s + k > Len(lines) \/ ~P(lines[s + k])

\* The content fragment of a non-blank line.
ContentOf(raw) ==
    IF IsHeading(raw) THEN convert_heading(rstrip_nl(raw))
    ELSE IF IsUl(raw) \/ IsOl(raw)
         THEN <<"<li>">> \o convert_bold_emphasis(strip(Drop(rstrip_nl(raw), 2)))
                  \o <<"</li>">>
         ELSE convert_bold_emphasis(rstrip_nl(raw))

InParse == pc \in {"loop", "open_output"}

\* C1: the lines are consumed once and in order: at every point of the
\* parse the content fragments emitted so far are, in order, those of the
\* non-blank lines before the cursor, one per line; blank lines give none;
\* the cursor never passes the end and the parse ends with the cursor at it.
C1_EveryLineOnce ==
    InParse =>
        /\ i <= Len(lines)
        /\ pc = "open_output" => i = Len(lines)
        /\ Len(origin) = Len(html_lines)
        /\ SelectSeq(origin, LAMBDA o : o # 0)
             = SelectSeq(Indices(i), LAMBDA k : ~IsBlank(lines[k]))
        /\ \A k \in DOMAIN origin :
              /\ (origin[k] # 0) <=> (kinds[k] \in {"h", "li", "text"})
              /\ origin[k] # 0 => html_lines[k] = ContentOf(lines[origin[k]])

C1_Witness ==
    /\ pc = "open_output"
    /\ Len(lines) = 3
    /\ \E k \in DOMAIN lines : IsBlank(lines[k])
    /\ "li" \in Range(kinds)
    /\ "text" \in Range(kinds)

NonBlankCount == Cardinality({ k \in DOMAIN lines : ~IsBlank(lines[k]) })

ContainerCount ==
    Cardinality(RunStarts(IsUl)) + Cardinality(RunStarts(IsOl))
        + Cardinality(RunStarts(IsPlain))

\* The <br/> fragments: one per paragraph line after the first of its run.
BreakCount ==
    Cardinality({ k \in DOMAIN lines : IsPlain(lines[k]) })
        - Cardinality(RunStarts(IsPlain))

\* C3 as stated: the number of fragments is the number of non-blank lines
\* plus two per <ul>, <ol> or <p> block.
C3_CountWithoutBreaks ==
    pc = "open_output" => Len(html_lines) = NonBlankCount + 2 * ContainerCount

\* C3 amended: the number of fragments is the number of non-blank lines plus
\* two per <ul>, <ol> or <p> block plus one <br/> per paragraph line after
\* the first of its paragraph.
C3_FragmentCount ==
    pc = "open_output" =>
        Len(html_lines) = NonBlankCount + 2 * ContainerCount + BreakCount

C3_Witness ==
    /\ pc = "open_output"
    /\ BreakCount = 1
    /\ RunStarts(IsUl) # {}
    /\ Len(html_lines) = 8

ListExpected(open, close, s, k) ==
    <<(<<open>>)>>
    \o [n \in 1..k |-> <<"<li>">>
                          \o convert_bold_emphasis(strip(Drop(rstrip_nl(lines[s + n - 1]), 2)))
                          \o <<"</li>">>]
    \o <<(<<close>>)>>

\* C4: when the outer loop examines a line that starts with "- " (or "* "),
\* that line starts a maximal run of k such lines, and the step emits <ul>
\* (<ol>), the k items of the run in order and </ul> (</ol>), and leaves the
\* cursor on the line after the run.
C4_ListRuns ==
    [][ /\ (AtLine /\ IsUl(lines[i + 1])) =>
              LET k == RunLen(IsUl, i + 1)
              IN /\ i = 0 \/ ~IsUl(lines[i])
                 /\ html_lines' = html_lines \o ListExpected("<ul>", "</ul>", i + 1, k)
                 /\ i' = i + k
        /\ (AtLine /\ IsOl(lines[i + 1])) =>
              LET k == RunLen(IsOl, i + 1)
              IN /\ i = 0 \/ ~IsOl(lines[i])
                 /\ html_lines' = html_lines \o ListExpected("<ol>", "</ol>", i + 1, k)
                 /\ i' = i + k ]_vars

\* A run of two "* " lines, one of them with bold text, ended by a "- " line.
C4_Witness ==
    /\ pc = "loop"
    /\ i = 2
    /\ Len(lines) = 3
    /\ kinds = <<"<ol>", "li", "li", "</ol>">>
    /\ "<b>" \in Range(html_lines[2]) \cup Range(html_lines[3])
    /\ IsUl(lines[3])

ParagraphExpected(s, k) ==
    [n \in 1..(2 * k + 1) |->
        IF n = 1 THEN <<"<p>">>
        ELSE IF n = 2 * k + 1 THEN <<"</p>">>
        ELSE IF n % 2 = 0 THEN convert_bold_emphasis(rstrip_nl(lines[s + (n \div 2) - 1]))
        ELSE <<"<br/>">>]

\* C5: when the outer loop examines a paragraph line, that line starts a
\* maximal run of k paragraph lines, and the step emits the 2k+1 fragments
\* <p>, text, (<br/>, text)*, </p> and leaves the cursor on the line after
\* the run.
C5_ParagraphRuns ==
    [][ (AtLine /\ IsPlain(lines[i + 1])) =>
            LET k == RunLen(IsPlain, i + 1)
            IN /\ i = 0 \/ ~IsPlain(lines[i])
               /\ html_lines' = html_lines \o ParagraphExpected(i + 1, k)
               /\ Len(html_lines') = Len(html_lines) + 2 * k + 1
               /\ i' = i + k ]_vars

\* A paragraph of an indented "- " line and another line, ended by a list line.
C5_Witness ==
    /\ pc = "loop"
    /\ i = 2
    /\ Len(lines) = 3
    /\ kinds = <<"<p>", "text", "<br/>", "text", "</p>">>
    /\ HasPrefix(lines[1], <<" ", "-", " ">>) \/ HasPrefix(lines[2], <<" ", "-", " ">>)
    /\ IsOl(lines[3])

\* The test of the paragraph branch, on the line without its newline.
BranchIsParagraph(ln) ==
    /\ strip(ln) # <<>>
    /\ ~StartsWith(ln, <<"#">>)
    /\ ~StartsWith(ln, <<"-", " ">>)
    /\ ~StartsWith(ln, <<"*", " ">>)

\* C9: the `else: i += 1` of the paragraph step is never executed, and the
\* test of the paragraph branch and the test of the collection loop agree
\* on every line of the input.
C9_GuardUnreachable ==
    /\ ~fallback
    /\ \A k \in DOMAIN lines :
          BranchIsParagraph(rstrip_nl(lines[k])) <=> paragraph_accepts(lines[k])

\* The paragraph step has run on a last line without a newline and on a
\* line with one.
C9_Witness ==
    /\ pc = "loop"
    /\ i = Len(lines)
    /\ Len(paragraph_lines) = 2
    /\ lines[i] = paragraph_lines[2]
    /\ lines[i - 1] # paragraph_lines[1]

RECURSIVE BlockState(_, _)
\* The state of the block grammar after the kinds ks, from state st.
BlockState(st, ks) ==
    IF ks = <<>> THEN st
    ELSE LET k == ks[1]
             nxt == CASE st = "top" /\ k = "h" -> "top"
                      [] st = "top" /\ k = "<ul>" -> "ul_open"
                      [] st = "top" /\ k = "<ol>" -> "ol_open"
                      [] st = "top" /\ k = "<p>" -> "p_open"
                      [] st \in {"ul_open", "ul_item"} /\ k = "li" -> "ul_item"
                      [] st = "ul_item" /\ k = "</ul>" -> "top"
                      [] st \in {"ol_open", "ol_item"} /\ k = "li" -> "ol_item"
                      [] st = "ol_item" /\ k = "</ol>" -> "top"
                      [] st \in {"p_open", "p_break"} /\ k = "text" -> "p_text"
                      [] st = "p_text" /\ k = "<br/>" -> "p_break"
                      [] st = "p_text" /\ k = "</p>" -> "top"
                      [] OTHER -> "bad"
         IN BlockState(nxt, Drop(ks, 1))

Tags == {"<ul>", "</ul>", "<ol>", "</ol>", "<p>", "</p>", "<br/>"}

\* C10: whenever the outer loop is about to examine a line, and when it has
\* ended, the fragments emitted so far are a sequence of complete blocks:
\* a heading; <ul>, one or more <li>, </ul>; <ol>, one or more <li>, </ol>;
\* <p>, text fragments separated by single <br/>, </p>.
C10_CompleteBlocks ==
    InParse =>
        /\ Len(kinds) = Len(html_lines)
        /\ \A k \in DOMAIN kinds : kinds[k] \in Tags => html_lines[k] = <<kinds[k]>>
        /\ BlockState("top", kinds) = "top"

C10_Witness ==
    /\ pc = "open_output"
    /\ "</ul>" \in Range(kinds)
    /\ "<br/>" \in Range(kinds)
    /\ "h" \in Range(kinds) \/ "</ol>" \in Range(kinds) \/ Len(lines) = 3

AllFragments == [k \in DOMAIN html_lines |-> html_lines[k] \o <<NL>>]

\* C2: when the run has ended, the output file is untouched or holds every
\* fragment.
C2_AllOrNothing ==
    pc = "exited" => (~out_opened \/ out_written = AllFragments)

\* How far the run is: the positions of a run in program order.
PcRank(p) ==
    CASE p = "check_args" -> 0
      [] p = "check_exists" -> 1
      [] p = "read" -> 2
      [] p = "loop" -> 3
      [] p = "open_output" -> 4
      [] p = "write" -> 5
      [] p = "return" -> 6
      [] p = "except" -> 6
      [] p = "exited" -> 7

\* Every step moves the run forward: to a later position, or to the next
\* line of the input, or to the next fragment to write.
MovesForward ==
    \/ PcRank(pc') > PcRank(pc)
    \/ pc' = pc /\ pc = "loop" /\ i < i' /\ i' <= Len(lines)
    \/ pc' = pc /\ pc = "write" /\ w < w' /\ w' <= Len(html_lines)

ExitOutcome ==
    /\ (pc = "exited") <=> (exit_code \in {0, 1})
    /\ exit_code \in {-1, 0, 1}
    /\ exit_code = -1 => stderr = <<>>
    /\ exit_code = 0 =>
          /\ argc >= 3 /\ input_exists
          /\ i = Len(lines)
          /\ out_opened /\ out_written = AllFragments
          /\ stderr = <<>>
    /\ exit_code = 1 => Len(stderr) = 1
    /\ (pc = "exited" /\ argc < 3) =>
          exit_code = 1 /\ stderr = <<UsageMessage>> /\ ~out_opened
    /\ (pc = "exited" /\ argc >= 3 /\ ~input_exists) =>
          exit_code = 1 /\ stderr = <<MissingMessage>> /\ ~out_opened
    /\ (pc = "exited" /\ argc >= 3 /\ input_exists /\ exit_code = 1) =>
          stderr = <<ErrorMessage>>

BoldInners(s) == LET ms == bold_matches(s) IN [k \in DOMAIN ms |-> Group1(s, ms[k])]

Positions(tok, s) == SelectSeq(Indices(Len(s)), LAMBDA k : s[k] = tok)

\* The texts between each <b> and its </b>.
BetweenB(s) ==
    LET opens == Positions("<b>", s)
        closes == Positions("</b>", s)
    IN [k \in DOMAIN opens |-> SubSeq(s, opens[k] + 1, closes[k] - 1)]

HasEmMarker(s) == \E k \in 1..(Len(s) - 1) : s[k] = "_" /\ s[k + 1] = "_"

\* C6 as stated: in the result of convert_bold_emphasis the text between
\* <b> and </b> is what the bold substitution matched.
C6_InnerUntouched ==
    pc = "returned" => BetweenB(text) = BoldInners(hist[3])

\* C6 amended: in the output of the bold substitution the text between <b>
\* and </b> is what the substitution matched; the emphasis substitution then
\* runs over it too, and leaves it as matched when it holds no "__".
C6_InnerAfterBold ==
    /\ pc = "em" => BetweenB(text) = BoldInners(hist[3])
    /\ pc = "returned" =>
          /\ BetweenB(hist[4]) = BoldInners(hist[3])
          /\ (\A k \in DOMAIN BoldInners(hist[3]) : ~HasEmMarker(BoldInners(hist[3])[k]))
                 => BetweenB(text) = BoldInners(hist[3])

\* The bold substitution matched a text that the emphasis substitution changed.
C6_Witness ==
    /\ pc = "returned"
    /\ BoldInners(hist[3]) # <<>>
    /\ BetweenB(text) # BoldInners(hist[3])

\* C7: the result is that of the four substitutions in the order hash,
\* letter removal, bold, emphasis, each over the whole output of the one
\* before: the hash substitution leaves no [[..]] behind, every **..** of the
\* output of the letter removal becomes <b>..</b>, every __..__ of the
\* output of the bold substitution becomes <em>..</em>, and the brackets in
\* the output of the letter removal are all in the result.
C7_PassOrder ==
    pc = "returned" =>
        /\ hist[2] = md5_pass(hist[1])
        /\ hist[3] = remove_pass(hist[2])
        /\ hist[4] = bold_pass(hist[3])
        /\ text = em_pass(hist[4])
        /\ text = convert_bold_emphasis(hist[1])
        /\ md5_matches(hist[2]) = <<>>
        /\ Count("<b>", text) = Len(bold_matches(hist[3]))
        /\ Count("<em>", text) = Len(em_matches(hist[4]))
        /\ Count("[", text) = Count("[", hist[3])
        /\ Count("]", text) = Count("]", hist[3])

\* A **..** that exists only in the output of the letter removal became bold.
C7_Witness ==
    /\ pc = "returned"
    /\ bold_matches(hist[1]) = <<>>
    /\ bold_matches(hist[2]) = <<>>
    /\ bold_matches(hist[3]) # <<>>
    /\ "<b>" \in Range(text)

============================================================================
